---------------------------- MODULE Spec2Model ----------------------------
(***************************************************************************)
(* WorkflowManager of agent_factory (workflows/workflow_manager.py).        *)
(*                                                                         *)
(* The manager owns two fields, `workflows` (a dict keyed by name) and     *)
(* `execution_history` (a list of execution results).  execute_workflow    *)
(* calls out to the agents of the supplied map once per loop iteration, so *)
(* one call is modelled as: the prologue (lines 69-74), one action per     *)
(* loop iteration (lines 76-120) and the epilogue (lines 122-132).  The    *)
(* manager is synchronous: no other operation starts while a call runs.    *)
(*                                                                         *)
(* Python values: a dict is a function whose DOMAIN is its key set; a      *)
(* value that may or may not be a dict is tagged, [dict |-> m] or          *)
(* [none |-> TRUE]; dict objects that are shared by reference (the         *)
(* caller's initial_context, the context of a run, the final_context of a  *)
(* history record) live in the heap `dicts` and are named by their index.  *)
(*                                                                         *)
(* WorkflowBuilder (workflows/workflow_builder.py) keeps one list object,  *)
(* which build() hands out and create_workflow stores by reference; the    *)
(* specification SpecBuilder is a caller using builder and manager         *)
(* together.  AgentRegistry and AgentFactory (core/registry.py,            *)
(* core/factory.py) are the specification SpecFactory: one registry        *)
(* mapping shared by all factories, the active agents of each factory, and *)
(* the agent objects in the heap `instances`.  SpecAgent is one factory    *)
(* whose agents (core/base_agent.py, templates/) execute tasks and are     *)
(* exported and restored (utils/serializer.py); values that pass through   *)
(* json or whose type the code tests are tagged with their Python type.    *)
(* SpecValidator is a caller of ConfigValidator                            *)
(* (config/config_validator.py).                                           *)
(***************************************************************************)
EXTENDS Integers, Sequences, FiniteSets, TLC

\* ------------------------------------------------------------------ bounds
\* execute_workflow calls on a known workflow in one behaviour
MaxCalls == 2
\* successful create_workflow calls in one behaviour
MaxCreates == 2
\* agent.execute invocations in one behaviour (past it, an agent never returns)
MaxInvocations == 2
\* agent objects constructed in one behaviour
MaxAgents == 2

\* ------------------------------------------------------------ input domains
Names == {"w1", "w2"}
\* the AgentFactory objects of the process
Factories == {"f1", "f2"}
Descriptions == {"d"}
\* the agent maps a caller supplies (the keys of `agents`)
AgentMaps == {{"a"}, {"a", "b"}}

EmptyDict == << >>
\* the steps callers build lists from: a bare step as in the tests, and a
\* step with its own context and kind as WorkflowBuilder.add_step makes it
StepPool ==
    { [agent |-> "a", task |-> "t1"],
      [agent |-> "b", task |-> "t2", type |-> "parallel",
       context |-> [k1 |-> "step"]] }

RECURSIVE SeqsUpTo(_, _)
SeqsUpTo(S, n) ==
    IF n = 0 THEN {<< >>}
    ELSE LET shorter == SeqsUpTo(S, n - 1)
         IN  shorter \cup {Append(s, x) : s \in {t \in shorter : Len(t) = n - 1}, x \in S}

\* the step lists handed to create_workflow: no longer than what can be run
StepLists == SeqsUpTo(StepPool, MaxInvocations)

\* what the caller's own mapping object holds when the program starts
InitialContexts == {EmptyDict, [k1 |-> "init"]}

\* tagged Python values
Dict(m) == [dict |-> m]
None == [none |-> TRUE]
IsDict(v) == "dict" \in DOMAIN v

OutputContexts == {[k1 |-> "o1"], [k1 |-> "o2", k2 |-> "o2"]}

\* the result mappings an agent's execute may return
AgentResults ==
    { EmptyDict,
      [success |-> FALSE, output_context |-> Dict([k2 |-> "o2"])],
      [success |-> TRUE, output_context |-> None] }
    \cup {[success |-> TRUE, output_context |-> Dict(o)] : o \in OutputContexts}

\* what one invocation of agent.execute does: raise, or return a value
\* (a result mapping, or something that is not a mapping)
Behaviours ==
    {[kind |-> "raise"], [kind |-> "return", value |-> None]}
    \cup {[kind |-> "return", value |-> Dict(r)] : r \in AgentResults}

\* ------------------------------------------------------------------- state
VARIABLES
    workflows,          \* self.workflows: name -> workflow dict
    execution_history,  \* self.execution_history
    dicts,              \* heap of dict objects; dicts[1] is the caller's mapping
    pc,                 \* "idle", or where the running execute_workflow call is
    run,                \* arguments and locals of the running execute_workflow call
    ret,                \* outcome of the last finished operation
    calls,              \* number of execute_workflow calls made on a known name
    invocations,        \* number of agent.execute invocations made
    creates,            \* number of workflows created
    workflow_keys,      \* the keys of self.workflows in insertion order
    given,              \* name -> the step sequence create_workflow was given
    builder,            \* a WorkflowBuilder: name, description, steps
    built,              \* the definition the last build() returned
    built_steps,        \* the step sequence of `built` when build() returned
    registered,         \* AgentRegistry._agents, in insertion order
    registered_through, \* type name -> the factory that registered it
    active_agents,      \* factory -> self.active_agents, in insertion order
    instances,          \* heap of agent objects, named by their index
    executed            \* the executions that returned success, in call order

managerVars == <<workflows, execution_history, dicts, pc, run, calls, invocations, creates,
                 workflow_keys, given>>
builderVars == <<builder, built, built_steps>>
factoryVars == <<registered, registered_through, active_agents, instances, executed>>
vars == <<managerVars, builderVars, factoryVars, ret>>

\* dict.get(key, default)
Get(m, k, default) == IF k \in DOMAIN m THEN m[k] ELSE default

\* dict.update(other) / {**m, **other}: keys of `other` win
Update(m, other) ==
    [k \in DOMAIN m \cup DOMAIN other |-> IF k \in DOMAIN other THEN other[k] ELSE m[k]]

\* the id of the caller's mapping object; 0 stands for initial_context=None
CallerDict == 1
NoContext == 0

NoRun == [name |-> "", agents |-> {}, initial_context |-> NoContext, before |-> EmptyDict,
          workflow |-> << >>, i |-> 0, context |-> NoContext, results |-> << >>, invoked |-> << >>]
NoRet == [op |-> "none", kind |-> "none"]

\* a list of steps is held by value when the manager alone holds it (a list
\* literal of the caller), and by reference when it is the list object of the
\* builder, which the builder goes on mutating in place
List(s) == [list |-> s]
BuilderSteps == [ref |-> "builder.steps"]

\* WorkflowBuilder.__init__, workflow_builder.py lines 21-23
WorkflowBuilder(name, description) ==
    [name |-> name, description |-> description, steps |-> << >>]

\* WorkflowManager.__init__, lines 17-18
InitManager ==
    /\ workflows = << >>
    /\ workflow_keys = << >>
    /\ given = << >>
    /\ execution_history = << >>
    /\ dicts \in {<<c>> : c \in InitialContexts}
    /\ pc = "idle"
    /\ run = NoRun
    /\ calls = 0
    /\ invocations = 0
    /\ creates = 0

\* one builder, made as WorkflowBuilder("w1", "d"); build() not yet called
InitBuilder ==
    /\ builder = WorkflowBuilder("w1", "d")
    /\ built = None
    /\ built_steps = << >>

\* the registry class with nothing registered (registry.py line 16) and one
\* AgentFactory() per element of Factories (factory.py lines 18-19)
InitFactory ==
    /\ registered = << >>
    /\ registered_through = << >>
    /\ active_agents = [f \in Factories |-> << >>]
    /\ instances = << >>
    /\ executed = << >>

Init ==
    /\ InitManager
    /\ InitBuilder
    /\ InitFactory
    /\ ret = NoRet

\* the list object a step-list value denotes
Deref(steps) == IF "ref" \in DOMAIN steps THEN builder.steps ELSE steps.list

StepsOf(workflow) == Deref(workflow["steps"])

\* list(self.workflows.keys()), lines 153
list_workflows == workflow_keys

\* ------------------------------------------------------- create / delete
\* create_workflow(name, description, steps), lines 38-49
create_workflowOverwrite(name, description, steps) ==
    /\ pc = "idle"
    /\ creates < MaxCreates
    /\ creates' = creates + 1
    /\ workflows' = [n \in DOMAIN workflows \cup {name} |->
                        IF n = name
                        THEN [name |-> name, description |-> description,
                              steps |-> steps, status |-> "created"]
                        ELSE workflows[n]]
    /\ workflow_keys' = IF name \in DOMAIN workflows THEN workflow_keys
                        ELSE Append(workflow_keys, name)
    /\ given' = [n \in DOMAIN workflows \cup {name} |->
                    IF n = name THEN Deref(steps) ELSE given[n]]
    /\ ret' = [op |-> "create_workflow", kind |-> "return"]
    /\ UNCHANGED <<execution_history, dicts, pc, run, calls, invocations>>

create_workflow(name, description, steps) ==
    /\ pc = "idle"
    /\ IF name \in DOMAIN workflows
       THEN /\ ret' = [op |-> "create_workflow", kind |-> "raise"]
            /\ UNCHANGED <<workflows, workflow_keys, given, creates>>
       ELSE LET workflow == [name |-> name, description |-> description,
                             steps |-> steps, status |-> "created"]
            IN  /\ creates < MaxCreates
                /\ creates' = creates + 1
                /\ workflows' = [n \in DOMAIN workflows \cup {name} |->
                                    IF n = name THEN workflow ELSE workflows[n]]
                /\ workflow_keys' = Append(workflow_keys, name)
                /\ given' = [n \in DOMAIN workflows \cup {name} |->
                                IF n = name THEN Deref(steps) ELSE given[n]]
                /\ ret' = [op |-> "create_workflow", kind |-> "return"]
    /\ UNCHANGED <<execution_history, dicts, pc, run, calls, invocations>>

\* delete_workflow(name), lines 165-168
delete_workflow(name) ==
    /\ pc = "idle"
    /\ IF name \in DOMAIN workflows
       THEN /\ workflows' = [n \in DOMAIN workflows \ {name} |-> workflows[n]]
            /\ workflow_keys' = SelectSeq(workflow_keys, LAMBDA n : n # name)
            /\ given' = [n \in DOMAIN workflows \ {name} |-> given[n]]
            /\ ret' = [op |-> "delete_workflow", kind |-> "return", value |-> TRUE]
       ELSE /\ UNCHANGED <<workflows, workflow_keys, given>>
            /\ ret' = [op |-> "delete_workflow", kind |-> "return", value |-> FALSE]
    /\ UNCHANGED <<execution_history, dicts, pc, run, calls, invocations, creates>>

\* ------------------------------------------------------ execute_workflow
\* lines 69-72: the definition the call runs, or "not found"
LookupDefaultEmpty(name) ==
    IF name \in DOMAIN workflows THEN [found |-> TRUE, workflow |-> workflows[name]]
    ELSE [found |-> TRUE, workflow |-> [name |-> name, description |-> "", steps |-> List(<< >>),
                                       status |-> "created"]]

Lookup(name) ==
    IF name \in DOMAIN workflows THEN [found |-> TRUE, workflow |-> workflows[name]]
    ELSE [found |-> FALSE]

\* line 73: `initial_context or {}`: None and an empty mapping are falsy, and
\* then the context is a new dict; otherwise it is the caller's object itself
ContextIsFresh(initial_context) ==
    \/ initial_context = NoContext
    \/ dicts[initial_context] = EmptyDict

\* prologue, lines 69-74
execute_workflow(name, agents, initial_context) ==
    /\ pc = "idle"
    /\ LET found == Lookup(name)
           args == [NoRun EXCEPT !.name = name, !.agents = agents,
                                 !.initial_context = initial_context,
                                 !.before = IF initial_context = NoContext THEN EmptyDict
                                            ELSE dicts[initial_context]]
       IN IF ~found.found
          THEN /\ ret' = [op |-> "execute_workflow", kind |-> "raise",
                          error |-> "ValueError", name |-> name]
               /\ UNCHANGED <<dicts, pc, run, calls>>
          ELSE /\ calls < MaxCalls
               /\ calls' = calls + 1
               /\ dicts' = IF ContextIsFresh(initial_context) THEN Append(dicts, EmptyDict)
                           ELSE dicts
               /\ run' = [args EXCEPT !.workflow = found.workflow,
                                      !.context = IF ContextIsFresh(initial_context)
                                                  THEN Len(dicts) + 1 ELSE initial_context]
               /\ ret' = [op |-> "execute_workflow", kind |-> "running"]
               /\ pc' = "loop"
    /\ UNCHANGED <<workflows, workflow_keys, given, execution_history, invocations, creates>>


\* line 92: the context handed to the agent, a new dict in which the step's
\* own context overlays the shared one
StepContextSharedWins(context, step) == Update(Get(step, "context", EmptyDict), context)

StepContext(context, step) == Update(context, Get(step, "context", EmptyDict))

\* lines 100 and 106: result.get("success", True)
SucceededAlways(result) == TRUE

Succeeded(result) == Get(result, "success", TRUE)

\* lines 95-101
StepResultWithKind(i, step, result) ==
    [step |-> i + 1, agent |-> step["agent"], task |-> step["task"],
     result |-> result, success |-> Succeeded(result), kind |-> Get(step, "type", "sequential")]

StepResult(i, step, result) ==
    [step |-> i + 1, agent |-> step["agent"], task |-> step["task"],
     result |-> result, success |-> Succeeded(result)]

\* lines 112-120: the handler of `except Exception`: one failed StepResult
\* carrying the error, then break
ExceptNoRecord(i, step, results, context, error) ==
    [results |-> results, context |-> context, stop |-> TRUE]

Except(i, step, results, context, error) ==
    [results |-> Append(results,
                        [step |-> i + 1, agent |-> step["agent"], task |-> step["task"],
                         success |-> FALSE, error |-> error]),
     context |-> context,
     stop |-> TRUE]

\* lines 91-120, the try statement of iteration i for what the agent did (b):
\* the results list and the content of the context dict afterwards, and whether
\* the loop is left
TryStep(i, step, b, results, context) ==
    IF b.kind = "raise"
    THEN Except(i, step, results, context, "AgentError")                \* line 93 raises
    ELSE IF ~IsDict(b.value)
    THEN Except(i, step, results, context, "AttributeError")            \* line 100 raises
    ELSE LET result == b.value.dict
             appended == Append(results, StepResult(i, step, result))   \* line 103
         IN  IF Succeeded(result)
             THEN LET output_context == Get(result, "output_context", Dict(EmptyDict))
                  IN  IF IsDict(output_context)
                      THEN [results |-> appended,
                            context |-> Update(context, output_context.dict),
                            stop |-> FALSE]
                      ELSE Except(i, step, appended, context, "TypeError")  \* line 107 raises
             ELSE [results |-> appended, context |-> context, stop |-> TRUE]

\* lines 82-86: the value returned when the step's agent is not in the map
AgentNotFound(i, agent_name, results) ==
    [success |-> FALSE, error |-> [agent |-> agent_name, step |-> i + 1], results |-> results]

\* one iteration of the loop, lines 76-120
execute_workflow_step ==
    /\ pc = "loop"
    /\ run.i < Len(StepsOf(run.workflow))
    /\ LET i == run.i
           step == StepsOf(run.workflow)[i + 1]
           agent_name == step["agent"]
       IN IF agent_name \notin run.agents
          THEN /\ ret' = [op |-> "execute_workflow", kind |-> "return",
                          value |-> AgentNotFound(i, agent_name, run.results)]
               /\ pc' = "idle"
               /\ run' = NoRun
               /\ UNCHANGED <<dicts, invocations>>
          ELSE \E b \in Behaviours :
                 LET context == dicts[run.context]
                     step_context == StepContext(context, step)
                     after == TryStep(i, step, b, run.results, context)
                 IN  /\ invocations < MaxInvocations
                     /\ invocations' = invocations + 1
                     /\ run' = [run EXCEPT !.i = i + 1,
                                           !.results = after.results,
                                           !.invoked = Append(run.invoked,
                                                [step |-> i + 1, agent |-> agent_name,
                                                 task |-> step["task"],
                                                 context |-> step_context, did |-> b])]
                     /\ dicts' = [dicts EXCEPT ![run.context] = after.context]
                     /\ pc' = IF after.stop THEN "finish" ELSE "loop"
                     /\ UNCHANGED ret
    /\ UNCHANGED <<workflows, workflow_keys, given, execution_history, calls, creates>>

\* lines 122-129
ExecutionResult(name, workflow, results, context) ==
    [workflow |-> name,
     success |-> \A k \in 1..Len(results) : Get(results[k], "success", FALSE),
     steps_completed |-> Len(results),
     total_steps |-> Len(StepsOf(workflow)),
     results |-> results,
     final_context |-> context]

\* epilogue, lines 122-132: after a break or when the steps are exhausted
execute_workflow_finish ==
    /\ \/ pc = "finish"
       \/ pc = "loop" /\ run.i = Len(StepsOf(run.workflow))
    /\ LET execution_result == ExecutionResult(run.name, run.workflow, run.results, run.context)
       IN  /\ execution_history' = Append(execution_history, execution_result)
           /\ ret' = [op |-> "execute_workflow", kind |-> "return", value |-> execution_result]
    /\ pc' = "idle"
    /\ run' = NoRun
    /\ UNCHANGED <<workflows, workflow_keys, given, dicts, calls, invocations, creates>>

\* get_execution_history(), line 177: a copy of the list
get_execution_history == execution_history

\* lines 199-202: the agents of the steps that are not available, in step order
RECURSIVE MissingAgents(_, _)
MissingAgents(steps, available_agents) ==
    IF steps = << >> THEN << >>
    ELSE (IF Head(steps)["agent"] \notin available_agents THEN <<Head(steps)["agent"]>>
          ELSE << >>) \o MissingAgents(Tail(steps), available_agents)

\* validate_workflow(name, available_agents), lines 190-214
validate_workflowAlwaysValid(name, available_agents) ==
    IF name \notin DOMAIN workflows
    THEN [valid |-> FALSE, error |-> "not found"]
    ELSE [valid |-> TRUE, message |-> "Workflow is valid and can be executed"]

validate_workflow(name, available_agents) ==
    IF name \notin DOMAIN workflows
    THEN [valid |-> FALSE, error |-> "not found"]
    ELSE LET missing_agents == MissingAgents(StepsOf(workflows[name]), available_agents)
         IN  IF missing_agents # << >>
             THEN [valid |-> FALSE, error |-> "Missing required agents",
                   missing_agents |-> missing_agents]
             ELSE [valid |-> TRUE, message |-> "Workflow is valid and can be executed"]

\* the manager used on its own, with step lists nobody else holds
Next ==
    \/ /\ \E name \in Names, description \in Descriptions, steps \in StepLists :
             create_workflow(name, description, List(steps))
       /\ UNCHANGED <<builderVars, factoryVars>>
    \/ /\ \E name \in Names : delete_workflow(name)
       /\ UNCHANGED <<builderVars, factoryVars>>
    \/ /\ \E name \in Names, agents \in AgentMaps, initial_context \in {NoContext, CallerDict} :
             execute_workflow(name, agents, initial_context)
       /\ UNCHANGED <<builderVars, factoryVars>>
    \/ execute_workflow_step /\ UNCHANGED <<builderVars, factoryVars>>
    \/ execute_workflow_finish /\ UNCHANGED <<builderVars, factoryVars>>

Spec == Init /\ [][Next]_vars

\* ------------------------------------------------------- WorkflowBuilder
\* workflows/workflow_builder.py.  The builder keeps one list object,
\* self.steps, for its whole life: every method mutates it in place.

\* the arguments callers pass for one step: agent_name, task, context
StepArgs ==
    { [agent_name |-> "a", task |-> "t1", context |-> None],
      [agent_name |-> "a", task |-> "t1", context |-> Dict(EmptyDict)] }
StepTypes == {"sequential", "parallel"}

\* lines 42-49: the step dict; `if context:` leaves the key out for None and
\* for an empty mapping
NewStep(agent_name, task, step_type, context) ==
    IF IsDict(context) /\ context.dict # EmptyDict
    THEN [agent |-> agent_name, task |-> task, type |-> step_type, context |-> context.dict]
    ELSE [agent |-> agent_name, task |-> task, type |-> step_type]

\* add_step(agent_name, task, step_type, context), lines 42-52
add_step(agent_name, task, step_type, context) ==
    /\ pc = "idle"
    /\ Len(builder.steps) < MaxInvocations
    /\ builder' = [builder EXCEPT
                      !.steps = Append(@, NewStep(agent_name, task, step_type, context))]
    /\ ret' = [op |-> "add_step", kind |-> "return"]
    /\ UNCHANGED <<built, built_steps>>

\* lines 69 and 86
add_sequential_step(agent_name, task, context) ==
    add_step(agent_name, task, "sequential", context)

add_parallel_step(agent_name, task, context) ==
    add_step(agent_name, task, "parallel", context)

\* build(), lines 95-99: the dict holds self.steps itself
build ==
    /\ pc = "idle"
    /\ built' = Dict([name |-> builder.name, description |-> builder.description,
                      steps |-> BuilderSteps])
    /\ built_steps' = builder.steps
    /\ ret' = [op |-> "build", kind |-> "return"]
    /\ UNCHANGED builder

\* clear(), lines 108-109: self.steps.clear()
clear ==
    /\ pc = "idle"
    /\ builder' = [builder EXCEPT !.steps = << >>]
    /\ ret' = [op |-> "clear", kind |-> "return"]
    /\ UNCHANGED <<built, built_steps>>

\* remove_last_step(), lines 127-129
remove_last_step ==
    /\ pc = "idle"
    /\ builder' = [builder EXCEPT
                      !.steps = IF @ # << >> THEN SubSeq(@, 1, Len(@) - 1) ELSE @]
    /\ ret' = [op |-> "remove_last_step", kind |-> "return"]
    /\ UNCHANGED <<built, built_steps>>

\* examples/workflow_example.py lines 64-68: the built definition's fields
\* handed to create_workflow
create_workflow_built ==
    /\ IsDict(built)
    /\ create_workflow(built.dict["name"], built.dict["description"], built.dict["steps"])

\* a caller that builds definitions with the builder, creates them in the
\* manager, goes on using the builder, deletes workflows and runs one
NextBuilder ==
    \/ /\ \E a \in StepArgs, step_type \in StepTypes :
             add_step(a.agent_name, a.task, step_type, a.context)
       /\ UNCHANGED <<managerVars, factoryVars>>
    \/ /\ \E a \in StepArgs : add_sequential_step(a.agent_name, a.task, a.context)
       /\ UNCHANGED <<managerVars, factoryVars>>
    \/ /\ \E a \in StepArgs : add_parallel_step(a.agent_name, a.task, a.context)
       /\ UNCHANGED <<managerVars, factoryVars>>
    \/ build /\ UNCHANGED <<managerVars, factoryVars>>
    \/ clear /\ UNCHANGED <<managerVars, factoryVars>>
    \/ remove_last_step /\ UNCHANGED <<managerVars, factoryVars>>
    \/ create_workflow_built /\ UNCHANGED <<builderVars, factoryVars>>
    \/ /\ \E name \in Names : delete_workflow(name)
       /\ UNCHANGED <<builderVars, factoryVars>>
    \/ /\ calls = 0
       /\ \E name \in Names, agents \in AgentMaps, initial_context \in {NoContext, CallerDict} :
             execute_workflow(name, agents, initial_context)
       /\ UNCHANGED <<builderVars, factoryVars>>
    \/ execute_workflow_step /\ UNCHANGED <<builderVars, factoryVars>>
    \/ execute_workflow_finish /\ UNCHANGED <<builderVars, factoryVars>>

SpecBuilder == Init /\ [][NextBuilder]_vars


\* ------------------------------------------- AgentRegistry, AgentFactory
\* core/registry.py and core/factory.py.  _agents is an attribute of the
\* class AgentRegistry, mutated in place and never rebound, and
\* AgentRegistry() always returns the one instance: every factory's
\* self.registry reads and writes the same mapping, `registered`.

\* a Python dict with its insertion order: a sequence of key-value entries
Keys(d) == [i \in 1..Len(d) |-> d[i].key]
Has(d, k) == \E i \in 1..Len(d) : d[i].key = k
\* del d[k]
Del(d, k) == SelectSeq(d, LAMBDA e : e.key # k)
At(d, k) == d[CHOOSE i \in 1..Len(d) : d[i].key = k].value
\* d[k] = v: a new key goes last, a present key keeps its place
PutFirst(d, k, v) == <<[key |-> k, value |-> v]>> \o Del(d, k)

Put(d, k, v) ==
    IF Has(d, k)
    THEN [i \in 1..Len(d) |-> IF d[i].key = k THEN [key |-> k, value |-> v] ELSE d[i]]
    ELSE Append(d, [key |-> k, value |-> v])

AgentTypes == {"coding", "debugging"}
AgentNames == {"n1", "n2"}
\* what callers pass as agent_class: a concrete agent class, the abstract
\* base class itself, and a class that is no agent
Classes == {"CodingAgent", "BaseAgent", "dict"}
Configs == {None, Dict(EmptyDict), Dict([model |-> "m"])}

\* issubclass(agent_class, BaseAgent), registry.py line 36
IsAgentClass(agent_class) ==
    agent_class \in {"CodingAgent", "DebuggingAgent", "PlanningAgent", "BuildingAgent",
                     "BaseAgent"}
\* BaseAgent has abstract methods (base_agent.py lines 35-57): calling it raises
IsAbstract(agent_class) == agent_class = "BaseAgent"

\* register(agent_type, agent_class), registry.py lines 36-42
registerOverwrite(agent_type, agent_class) ==
    /\ registered' = Put(registered, agent_type, agent_class)
    /\ ret' = [op |-> "register", kind |-> "return"]

register(agent_type, agent_class) ==
    IF ~IsAgentClass(agent_class)
    THEN /\ ret' = [op |-> "register", kind |-> "raise", error |-> "TypeError"]
         /\ UNCHANGED registered
    ELSE IF Has(registered, agent_type)
    THEN /\ ret' = [op |-> "register", kind |-> "raise", error |-> "ValueError"]
         /\ UNCHANGED registered
    ELSE /\ registered' = Put(registered, agent_type, agent_class)
         /\ ret' = [op |-> "register", kind |-> "return"]

\* unregister(agent_type), registry.py lines 51-52
unregister(agent_type) ==
    /\ registered' = IF Has(registered, agent_type) THEN Del(registered, agent_type)
                     ELSE registered
    /\ ret' = [op |-> "unregister", kind |-> "return"]

\* AgentRegistry.clear(), registry.py line 98
registry_clear ==
    /\ registered' = << >>
    /\ ret' = [op |-> "clear", kind |-> "return"]

\* registry.py lines 64, 73, 85
get(agent_type) == IF Has(registered, agent_type) THEN At(registered, agent_type) ELSE "None"
list_types == Keys(registered)
is_registeredAlways(agent_type) == TRUE

is_registered(agent_type) == Has(registered, agent_type)

\* register_agent_type(agent_type, agent_class) of a factory, factory.py line 122
register_agent_type(factory, agent_type, agent_class) == register(agent_type, agent_class)

\* BaseAgent.__init__, base_agent.py lines 25-33 (created_at and metadata left
\* out): `config or {}` makes None and an empty mapping an empty config
BaseAgent(agent_class, name, config) ==
    [name |-> name,
     config |-> IF IsDict(config) /\ config.dict # EmptyDict THEN config.dict ELSE EmptyDict,
     agent_type |-> agent_class,
     history |-> << >>]

\* the constructors of the concrete classes add the class's own list:
\* debugging_agent.py line 34, planning_agent.py line 29, building_agent.py line 34
NewAgent(agent_class, name, config) ==
    LET base == BaseAgent(agent_class, name, config)
    IN  IF agent_class = "DebuggingAgent"
        THEN [name |-> base.name, config |-> base.config, agent_type |-> base.agent_type,
              history |-> base.history, bug_database |-> << >>]
        ELSE IF agent_class = "PlanningAgent"
        THEN [name |-> base.name, config |-> base.config, agent_type |-> base.agent_type,
              history |-> base.history, plans |-> << >>]
        ELSE IF agent_class = "BuildingAgent"
        THEN [name |-> base.name, config |-> base.config, agent_type |-> base.agent_type,
              history |-> base.history, build_history |-> << >>]
        ELSE base

\* a reference to the agent object instances[id]
Agent(id) == [agent |-> id]

\* factory.py line 45: name in self.active_agents
NameInUseNever(factory, name) == FALSE

NameInUse(factory, name) == Has(active_agents[factory], name)

\* factory.py lines 49-52: construct the agent, store it under its name,
\* return it
ConstructNotStored(factory, agent_class, name, config) ==
    /\ Len(instances) < MaxAgents
    /\ instances' = Append(instances, NewAgent(agent_class, name, config))
    /\ UNCHANGED active_agents
    /\ ret' = [op |-> "create_agent", kind |-> "return", factory |-> factory,
               name |-> name, value |-> Agent(Len(instances) + 1)]

Construct(factory, agent_class, name, config) ==
    /\ Len(instances) < MaxAgents
    /\ instances' = Append(instances, NewAgent(agent_class, name, config))
    /\ active_agents' = [active_agents EXCEPT ![factory] = Put(@, name, Len(instances) + 1)]
    /\ ret' = [op |-> "create_agent", kind |-> "return", factory |-> factory,
               name |-> name, value |-> Agent(Len(instances) + 1)]

\* create_agent(agent_type, name, config), factory.py lines 39-52
create_agent(factory, agent_type, name, config) ==
    IF ~is_registered(agent_type)
    THEN /\ ret' = [op |-> "create_agent", kind |-> "raise", error |-> "ValueError",
                    message |-> "is not registered"]
         /\ UNCHANGED <<active_agents, instances>>
    ELSE IF NameInUse(factory, name)
    THEN /\ ret' = [op |-> "create_agent", kind |-> "raise", error |-> "ValueError",
                    message |-> "already exists"]
         /\ UNCHANGED <<active_agents, instances>>
    ELSE LET agent_class == get(agent_type)
         IN  IF IsAbstract(agent_class)
             THEN /\ ret' = [op |-> "create_agent", kind |-> "raise", error |-> "TypeError",
                             message |-> "abstract class"]
                  /\ UNCHANGED <<active_agents, instances>>
             ELSE Construct(factory, agent_class, name, config)

\* get_agent(name), factory.py line 64
get_agent(factory, name) ==
    IF Has(active_agents[factory], name) THEN Agent(At(active_agents[factory], name))
    ELSE None

\* list_agents(), factory.py line 73
list_agents(factory) == Keys(active_agents[factory])

\* remove_agent(name), factory.py lines 85-88
remove_agentAlwaysTrue(factory, name) ==
    /\ active_agents' = [active_agents EXCEPT ![factory] = Del(@, name)]
    /\ ret' = [op |-> "remove_agent", kind |-> "return", value |-> TRUE]
    /\ UNCHANGED instances

remove_agent(factory, name) ==
    /\ IF Has(active_agents[factory], name)
       THEN /\ active_agents' = [active_agents EXCEPT ![factory] = Del(@, name)]
            /\ ret' = [op |-> "remove_agent", kind |-> "return", value |-> TRUE]
       ELSE /\ UNCHANGED active_agents
            /\ ret' = [op |-> "remove_agent", kind |-> "return", value |-> FALSE]
    /\ UNCHANGED instances

\* clear_all_agents(), factory.py line 159
clear_all_agentsEverywhere(factory) ==
    /\ active_agents' = [f \in Factories |-> << >>]
    /\ ret' = [op |-> "clear_all_agents", kind |-> "return"]
    /\ UNCHANGED instances

clear_all_agents(factory) ==
    /\ active_agents' = [active_agents EXCEPT ![factory] = << >>]
    /\ ret' = [op |-> "clear_all_agents", kind |-> "return"]
    /\ UNCHANGED instances

\* the factory through which each registered type was (last) registered
Through(factory) ==
    [t \in {registered'[i].key : i \in 1..Len(registered')} |->
        IF Has(registered, t) THEN registered_through[t] ELSE factory]

\* the factories of one process and the registry they share
NextFactory ==
    \/ /\ \E factory \in Factories, agent_type \in AgentTypes, agent_class \in Classes :
             /\ register_agent_type(factory, agent_type, agent_class)
             /\ registered_through' = Through(factory)
       /\ UNCHANGED <<managerVars, builderVars, active_agents, instances, executed>>
    \/ /\ \E agent_type \in AgentTypes :
             unregister(agent_type) /\ registered_through' = Through("none")
       /\ UNCHANGED <<managerVars, builderVars, active_agents, instances, executed>>
    \/ /\ registry_clear /\ registered_through' = Through("none")
       /\ UNCHANGED <<managerVars, builderVars, active_agents, instances, executed>>
    \/ /\ \E factory \in Factories, agent_type \in AgentTypes, name \in AgentNames,
             config \in Configs : create_agent(factory, agent_type, name, config)
       /\ UNCHANGED <<managerVars, builderVars, registered, registered_through, executed>>
    \/ /\ \E factory \in Factories, name \in AgentNames : remove_agent(factory, name)
       /\ UNCHANGED <<managerVars, builderVars, registered, registered_through, executed>>
    \/ /\ \E factory \in Factories : clear_all_agents(factory)
       /\ UNCHANGED <<managerVars, builderVars, registered, registered_through, executed>>

\* no workflow runs here: the caller's context mapping is left empty
InitEmptyContext == Init /\ dicts = <<EmptyDict>>

SpecFactory == InitEmptyContext /\ [][NextFactory]_vars

\* ================================================================ agents
\* Python values whose type the code inspects or json converts are tagged with
\* it: Str, Bool, Tuple, List (a list), Dict (a dict), None.
Str(s) == [str |-> s]
Bool(b) == [bool |-> b]
Tuple(t) == [tuple |-> t]
IsStr(v) == "str" \in DOMAIN v
IsList(v) == "list" \in DOMAIN v

\* the executions that returned success, over all agents
MaxExecutions == 2

ConcreteClasses == {"CodingAgent", "DebuggingAgent", "PlanningAgent", "BuildingAgent"}
AgentConfigs == {Dict([languages |-> List(<<Str("Go")>>)])}
\* the classes a caller hands to deserialize_agent
RestoreClasses == {"CodingAgent", "DebuggingAgent"}
Tasks == {Str("t1"), Str("t2"), None, Bool(TRUE)}
\* absent, a mapping whose language is a tuple (of language and version), no mapping
Contexts == {None,
             Dict([language |-> Tuple(<<Str("Go"), Str("1")>>)]),
             Str("ctx")}

\* validate_input(task, context), base_agent.py lines 59-74
validate_inputTaskOnly(task, context) ==
    IF task = None \/ ~IsStr(task) THEN FALSE
    ELSE TRUE

validate_input(task, context) ==
    IF task = None \/ ~IsStr(task) THEN FALSE
    ELSE IF context # None /\ ~IsDict(context) THEN FALSE
    ELSE TRUE

\* datetime.now().isoformat(): a string no operation reads back
Timestamp == Str("now")

\* log_execution(task, result), base_agent.py lines 84-90
log_executionFirst(agent, task, result) ==
    [agent EXCEPT !.history =
        <<Dict([timestamp |-> Timestamp, task |-> task, result |-> result,
                agent_type |-> Str(agent.agent_type)])>> \o @]

log_execution(agent, task, result) ==
    [agent EXCEPT !.history =
        Append(@, Dict([timestamp |-> Timestamp, task |-> task, result |-> result,
                        agent_type |-> Str(agent.agent_type)]))]

\* get_history(), base_agent.py line 99: a copy of the list
get_history(agent) == agent.history

\* get_info(), base_agent.py lines 108-116 (capabilities, created_at, metadata left out)
get_info(agent) ==
    [name |-> agent.name, type |-> agent.agent_type, config |-> agent.config,
     execution_count |-> Len(agent.history)]

\* `context = context or {}` followed by context.get(key, default)
ContextGet(context, key, default) ==
    IF IsDict(context) /\ key \in DOMAIN context.dict THEN context.dict[key] ELSE default

\* a list or a dict cannot be a dict key: dict.get(key) raises TypeError
IsHashable(v) == ~(IsList(v) \/ IsDict(v))

Invalid(agent, field) ==
    [kind |-> "return", agent |-> agent,
     value |-> Dict([success |-> Bool(FALSE), error |-> Str("Invalid input provided")]
                    @@ (field :> None))]

\* CodingAgent.execute, coding_agent.py lines 56-82. Of the result mapping the
\* entries that depend on the call are kept; the others are fixed strings.
CodingAgent_execute(agent, task, context) ==
    IF ~validate_input(task, context) THEN Invalid(agent, "code")
    ELSE LET language == ContextGet(context, "language", Str("Python"))
             result == Dict([success |-> Bool(TRUE), task |-> task, language |-> language])
         IN  IF ~IsHashable(language)
             THEN [kind |-> "raise", agent |-> agent, error |-> "TypeError"]
             ELSE [kind |-> "return", agent |-> log_execution(agent, task, result),
                   value |-> result]

\* _find_similar_bugs(description), debugging_agent.py lines 229-233: the
\* descriptions of the last five bugs that hold a word of this one (the tasks
\* here are one word each, and no one is part of another)
RECURSIVE Similar(_, _)
Similar(bugs, task) ==
    IF bugs = << >> THEN << >>
    ELSE IF Head(bugs).dict["description"] = task
         THEN <<task>> \o Similar(Tail(bugs), task)
         ELSE Similar(Tail(bugs), task)

_find_similar_bugs(agent, description) ==
    LET n == Len(agent.bug_database)
    IN  List(Similar(SubSeq(agent.bug_database, IF n > 5 THEN n - 4 ELSE 1, n), description))

\* _log_bug(description, error_type, analysis), debugging_agent.py lines 211-216
_log_bug(agent, description, error_type, analysis) ==
    [agent EXCEPT !.bug_database =
        Append(@, Dict([description |-> description, error_type |-> error_type,
                        analysis |-> analysis]))]

\* DebuggingAgent.execute, debugging_agent.py lines 59-86
DebuggingAgent_execute(agent, task, context) ==
    IF ~validate_input(task, context) THEN Invalid(agent, "analysis")
    ELSE LET error_type == ContextGet(context, "error_type", Str("unknown"))
             result == Dict([success |-> Bool(TRUE), task |-> task,
                             error_type |-> error_type,
                             similar_bugs |-> _find_similar_bugs(agent, task)])
         IN  IF ~IsHashable(error_type)
             THEN [kind |-> "raise", agent |-> agent, error |-> "TypeError"]
             ELSE [kind |-> "return",
                   agent |-> log_execution(_log_bug(agent, task, error_type, result),
                                           task, result),
                   value |-> result]

\* PlanningAgent.execute, planning_agent.py lines 55-84
PlanningAgent_execute(agent, task, context) ==
    IF ~validate_input(task, context) THEN Invalid(agent, "plan")
    ELSE LET complexity == ContextGet(context, "complexity", Str("medium"))
             result == Dict([success |-> Bool(TRUE), project |-> task,
                             complexity |-> complexity])
         IN  [kind |-> "return",
              agent |-> log_execution([agent EXCEPT !.plans = Append(@, result)],
                                      task, result),
              value |-> result]

\* BuildingAgent.execute, building_agent.py lines 60-89: the build
\* configurations call language.lower() (lines 159, 177), which a value that
\* is no string lacks
BuildingAgent_execute(agent, task, context) ==
    IF ~validate_input(task, context) THEN Invalid(agent, "build")
    ELSE LET language == ContextGet(context, "language", Str("Python"))
             result == Dict([success |-> Bool(TRUE), task |-> task, language |-> language])
         IN  IF ~IsStr(language)
             THEN [kind |-> "raise", agent |-> agent, error |-> "AttributeError"]
             ELSE [kind |-> "return",
                   agent |-> log_execution([agent EXCEPT !.build_history = Append(@, result)],
                                           task, result),
                   value |-> result]

\* agent.execute(task, context): the method of the agent's class. The value is
\* the outcome together with the agent object as the call leaves it.
execute(agent, task, context) ==
    IF agent.agent_type = "CodingAgent" THEN CodingAgent_execute(agent, task, context)
    ELSE IF agent.agent_type = "DebuggingAgent" THEN DebuggingAgent_execute(agent, task, context)
    ELSE IF agent.agent_type = "PlanningAgent" THEN PlanningAgent_execute(agent, task, context)
    ELSE BuildingAgent_execute(agent, task, context)

\* the execution returned a result mapping that reports success
Successful(done) == done.kind = "return" /\ done.value.dict["success"] = Bool(TRUE)

\* execute_agent_task(name, task, context), factory.py lines 149-155
execute_agent_taskOfFirstAgent(factory, name, task, context) ==
    /\ instances # << >>
    /\ LET done == execute(instances[1], task, context)
       IN  /\ Successful(done) => Len(executed) < MaxExecutions
           /\ instances' = [instances EXCEPT ![1] = done.agent]
           /\ executed' = IF Successful(done)
                          THEN Append(executed, [agent |-> 1, task |-> task,
                                                 result |-> done.value])
                          ELSE executed
           /\ ret' = IF done.kind = "raise"
                     THEN [op |-> "execute_agent_task", kind |-> "raise",
                           name |-> name,
                           error |-> done.error, message |-> "agent"]
                     ELSE [op |-> "execute_agent_task", kind |-> "return",
                           name |-> name,
                           value |-> done.value]
    /\ UNCHANGED active_agents

execute_agent_task(factory, name, task, context) ==
    /\ IF get_agent(factory, name) = None
       THEN /\ ret' = [op |-> "execute_agent_task", kind |-> "raise",
                       name |-> name,
                       error |-> "ValueError", message |-> "not found"]
            /\ UNCHANGED <<instances, executed>>
       ELSE LET id == At(active_agents[factory], name)
                done == execute(instances[id], task, context)
            IN  /\ Successful(done) => Len(executed) < MaxExecutions
                /\ instances' = [instances EXCEPT ![id] = done.agent]
                /\ executed' = IF Successful(done)
                               THEN Append(executed, [agent |-> id, task |-> task,
                                                      result |-> done.value])
                               ELSE executed
                /\ ret' = IF done.kind = "raise"
                          THEN [op |-> "execute_agent_task", kind |-> "raise",
                                name |-> name,
                                error |-> done.error, message |-> "agent"]
                          ELSE [op |-> "execute_agent_task", kind |-> "return",
                                name |-> name,
                                value |-> done.value]
    /\ UNCHANGED active_agents

\* json.dumps(obj): the JSON text, as the tree of its values. A tuple is
\* written as an array, as a list is.
RECURSIVE json_dumps(_)
json_dumps(obj) ==
    IF obj = None THEN [null |-> TRUE]
    ELSE IF "bool" \in DOMAIN obj THEN [literal |-> obj.bool]
    ELSE IF IsStr(obj) THEN [string |-> obj.str]
    ELSE IF "tuple" \in DOMAIN obj
    THEN [array |-> [i \in 1..Len(obj.tuple) |-> json_dumps(obj.tuple[i])]]
    ELSE IF IsList(obj)
    THEN [array |-> [i \in 1..Len(obj.list) |-> json_dumps(obj.list[i])]]
    ELSE [object |-> [k \in DOMAIN obj.dict |-> json_dumps(obj.dict[k])]]

\* json.loads(text): an array is read as a list
RECURSIVE json_loads(_)
json_loads(text) ==
    IF "null" \in DOMAIN text THEN None
    ELSE IF "literal" \in DOMAIN text THEN Bool(text.literal)
    ELSE IF "string" \in DOMAIN text THEN Str(text.string)
    ELSE IF "array" \in DOMAIN text
    THEN List([i \in 1..Len(text.array) |-> json_loads(text.array[i])])
    ELSE Dict([k \in DOMAIN text.object |-> json_loads(text.object[k])])

\* export_state(), base_agent.py lines 134-142 (created_at and metadata left out)
export_state(agent) ==
    json_dumps(Dict([name |-> Str(agent.name), type |-> Str(agent.agent_type),
                     config |-> Dict(agent.config), history |-> List(agent.history)]))

\* deserialize_agent(json_str, agent_class), serializer.py lines 31-45: the
\* instance is built by the class the caller names; the document's "type" is
\* not read
deserialize_agent(json_str, agent_class) ==
    LET state == json_loads(json_str).dict
        agent == NewAgent(agent_class,
                          IF "name" \in DOMAIN state THEN state["name"].str ELSE "restored_agent",
                          IF "config" \in DOMAIN state THEN state["config"] ELSE Dict(EmptyDict))
    IN  [agent EXCEPT !.history = IF "history" \in DOMAIN state THEN state["history"].list
                                  ELSE << >>]

\* an agent of the heap is exported and restored
serialize_deserialize(id, agent_class) ==
    /\ ret' = [op |-> "deserialize_agent", kind |-> "return", exported |-> instances[id],
               agent_class |-> agent_class,
               value |-> deserialize_agent(export_state(instances[id]), agent_class)]
    /\ UNCHANGED <<active_agents, instances, executed>>

\* one factory whose agents execute tasks and are exported and restored
NextAgent ==
    \/ /\ \E agent_class \in ConcreteClasses :
             /\ register_agent_type("f1", "coding", agent_class)
             /\ registered_through' = Through("f1")
       /\ UNCHANGED <<managerVars, builderVars, active_agents, instances, executed>>
    \/ /\ unregister("coding") /\ registered_through' = Through("none")
       /\ UNCHANGED <<managerVars, builderVars, active_agents, instances, executed>>
    \/ /\ \E config \in AgentConfigs : create_agent("f1", "coding", "n1", config)
       /\ UNCHANGED <<managerVars, builderVars, registered, registered_through, executed>>
    \/ /\ \E name \in AgentNames : remove_agent("f1", name)
       /\ UNCHANGED <<managerVars, builderVars, registered, registered_through, executed>>
    \/ /\ clear_all_agents("f1")
       /\ UNCHANGED <<managerVars, builderVars, registered, registered_through, executed>>
    \/ /\ \E name \in AgentNames, task \in Tasks, context \in Contexts :
             execute_agent_task("f1", name, task, context)
       /\ UNCHANGED <<managerVars, builderVars, registered, registered_through>>
    \/ /\ \E id \in 1..Len(instances), agent_class \in RestoreClasses :
             serialize_deserialize(id, agent_class)
       /\ UNCHANGED <<managerVars, builderVars, registered, registered_through>>

SpecAgent == InitEmptyContext /\ [][NextAgent]_vars

\* ============================================================ validation
Number(i) == [int |-> i]
\* isinstance(v, int): bool is a subclass of int
IsInt(v) == "int" \in DOMAIN v \/ "bool" \in DOMAIN v
IntValue(v) == IF "int" \in DOMAIN v THEN v.int ELSE IF v.bool THEN 1 ELSE 0

\* the keys a configuration mapping of the input sets may hold at once
MaxKeys == 2
\* the steps of a workflow configuration of the input sets
MaxSteps == 2

\* the mappings over at most MaxKeys of the keys, with values of the set
Mappings(keys, values) ==
    UNION {[K -> values] : K \in {K \in SUBSET keys : Cardinality(K) <= MaxKeys}}

NotMappings == {None, Str("x"), List(<< >>)}
AgentTypeNames == {"coding", "debugging", "planning", "building", "other"}
AgentConfigValues ==
    {List(<<Str("Go")>>), List(<<Number(1)>>), Str("agile"), Number(0 - 1)}
AgentConfigInputs ==
    NotMappings \cup
    {Dict(m) : m \in Mappings({"languages", "max_bugs_tracked", "methodology", "platforms"},
                              AgentConfigValues)}
Sections ==
    {Str("x")} \cup
    {Dict(m) : m \in Mappings({"max_agents", "timeout_seconds"},
                              {Number(0), Number(5)})}
FactoryConfigInputs ==
    NotMappings \cup {Dict(m) : m \in Mappings({"factory", "workflows"}, Sections)}
StepInputs == {Str("s"), Dict([agent |-> Str("a")]), Dict([agent |-> Str("a"), task |-> Str("t")])}
WorkflowConfigInputs ==
    NotMappings \cup
    {Dict(m) : m \in Mappings({"name", "steps"},
                              {Str("w"), Number(1)} \cup
                              {List(steps) : steps \in SeqsUpTo(StepInputs, MaxSteps)})}

\* errors.append(message) when the condition holds
Check(errors, condition, message) == IF condition THEN Append(errors, message) ELSE errors

\* _validate_coding_config(config), config_validator.py lines 49-61
_validate_coding_config(config) ==
    LET languages ==
            IF "languages" \in DOMAIN config
            THEN IF ~IsList(config["languages"]) THEN <<"'languages' must be a list">>
                 ELSE IF ~\A i \in 1..Len(config["languages"].list) :
                             IsStr(config["languages"].list[i])
                      THEN <<"All languages must be strings">>
                      ELSE << >>
            ELSE << >>
    IN  Check(languages, "style_guide" \in DOMAIN config /\ ~IsStr(config["style_guide"]),
              "'style_guide' must be a string")

\* _validate_debugging_config(config), config_validator.py lines 66-76
_validate_debugging_config(config) ==
    Check(Check(<< >>, "strategies" \in DOMAIN config /\ ~IsList(config["strategies"]),
                "'strategies' must be a list"),
          "max_bugs_tracked" \in DOMAIN config
              /\ (~IsInt(config["max_bugs_tracked"]) \/ IntValue(config["max_bugs_tracked"]) < 0),
          "'max_bugs_tracked' must be a non-negative integer")

\* _validate_planning_config(config), config_validator.py lines 81-88
_validate_planning_config(config) ==
    Check(<< >>, "methodology" \in DOMAIN config
                    /\ config["methodology"] \notin
                          {Str("agile"), Str("waterfall"), Str("kanban"), Str("scrum")},
          "'methodology' must be one of: agile, waterfall, kanban, scrum")

\* _validate_building_config(config), config_validator.py lines 93-103
_validate_building_config(config) ==
    Check(Check(<< >>, "build_tools" \in DOMAIN config /\ ~IsList(config["build_tools"]),
                "'build_tools' must be a list"),
          "platforms" \in DOMAIN config /\ ~IsList(config["platforms"]),
          "'platforms' must be a list")

\* {"valid": len(errors) == 0, "errors": errors if errors else None}
Validation(errors) ==
    [valid |-> Len(errors) = 0, errors |-> IF errors # << >> THEN List(errors) ELSE None]

\* validate_agent_config(config, agent_type), config_validator.py lines 23-44
validate_agent_config(config, agent_type) ==
    IF ~IsDict(config)
    THEN [valid |-> FALSE, errors |-> List(<<"Configuration must be a dictionary">>)]
    ELSE Validation(
            IF agent_type = "coding" THEN _validate_coding_config(config.dict)
            ELSE IF agent_type = "debugging" THEN _validate_debugging_config(config.dict)
            ELSE IF agent_type = "planning" THEN _validate_planning_config(config.dict)
            ELSE IF agent_type = "building" THEN _validate_building_config(config.dict)
            ELSE << >>)

\* the check of one section and its number, config_validator.py lines 125-131, 134-140
Section(errors, config, section, key, message) ==
    IF section \in DOMAIN config
    THEN IF ~IsDict(config[section])
         THEN Append(errors, "'" \o section \o "' section must be a dictionary")
         ELSE Check(errors,
                    key \in DOMAIN config[section].dict
                       /\ (~IsInt(config[section].dict[key])
                             \/ IntValue(config[section].dict[key]) < 1),
                    message)
    ELSE errors

\* validate_factory_config(config), config_validator.py lines 116-145
validate_factory_config(config) ==
    IF ~IsDict(config)
    THEN [valid |-> FALSE, errors |-> List(<<"Configuration must be a dictionary">>)]
    ELSE Validation(
            Section(Section(<< >>, config.dict, "factory", "max_agents",
                            "'max_agents' must be a positive integer"),
                    config.dict, "workflows", "timeout_seconds",
                    "'timeout_seconds' must be a positive integer"))

\* the loop over the steps, config_validator.py lines 178-187; a message names
\* the number of its step
RECURSIVE StepErrors(_, _)
StepErrors(steps, i) ==
    IF i > Len(steps) THEN << >>
    ELSE (IF ~IsDict(steps[i]) THEN <<[step |-> i, error |-> "must be a dictionary"]>>
          ELSE Check(Check(<< >>, "agent" \notin DOMAIN steps[i].dict,
                           [step |-> i, error |-> "must have an 'agent' field"]),
                     "task" \notin DOMAIN steps[i].dict,
                     [step |-> i, error |-> "must have a 'task' field"]))
         \o StepErrors(steps, i + 1)

\* validate_workflow_config(workflow), config_validator.py lines 158-192
validate_workflow_config(workflow) ==
    IF ~IsDict(workflow)
    THEN [valid |-> FALSE, errors |-> List(<<"Workflow must be a dictionary">>)]
    ELSE LET name == IF "name" \notin DOMAIN workflow.dict
                     THEN <<"Workflow must have a 'name' field">>
                     ELSE IF ~IsStr(workflow.dict["name"])
                          THEN <<"Workflow 'name' must be a string">>
                          ELSE << >>
             steps == IF "steps" \notin DOMAIN workflow.dict
                      THEN <<"Workflow must have a 'steps' field">>
                      ELSE IF ~IsList(workflow.dict["steps"])
                           THEN <<"Workflow 'steps' must be a list">>
                           ELSE StepErrors(workflow.dict["steps"].list, 1)
         IN  Validation(name \o steps)

\* a caller validates a configuration
NextValidator ==
    \/ /\ \E config \in AgentConfigInputs, agent_type \in AgentTypeNames :
             ret' = [op |-> "validate_agent_config", kind |-> "return", config |-> config,
                     agent_type |-> agent_type,
                     value |-> validate_agent_config(config, agent_type)]
       /\ UNCHANGED <<managerVars, builderVars, factoryVars>>
    \/ /\ \E config \in FactoryConfigInputs :
             ret' = [op |-> "validate_factory_config", kind |-> "return", config |-> config,
                     value |-> validate_factory_config(config)]
       /\ UNCHANGED <<managerVars, builderVars, factoryVars>>
    \/ /\ \E workflow \in WorkflowConfigInputs :
             ret' = [op |-> "validate_workflow_config", kind |-> "return",
                     config |-> workflow, value |-> validate_workflow_config(workflow)]
       /\ UNCHANGED <<managerVars, builderVars, factoryVars>>

SpecValidator == InitEmptyContext /\ [][NextValidator]_vars

\* ================================================================= claims
Running == pc # "idle"
Returned == pc = "idle" /\ ret.op = "execute_workflow" /\ ret.kind = "return"
\* the value of lines 82-86 is the only one with an "error" key at its top level
ReturnedEarly == Returned /\ "error" \in DOMAIN ret.value
ReturnedRecord == Returned /\ "error" \notin DOMAIN ret.value

\* the loop stands before a step whose agent the map lacks
AtMissingAgent ==
    /\ pc = "loop"
    /\ run.i < Len(StepsOf(run.workflow))
    /\ StepsOf(run.workflow)[run.i + 1]["agent"] \notin run.agents

\* an invocation that returned a result mapping reporting success
ReturnedSuccess(did) ==
    /\ did.kind = "return"
    /\ IsDict(did.value)
    /\ ("success" \in DOMAIN did.value.dict => did.value.dict["success"])

Last(seq) == seq[Len(seq)]

\* C1: when the loop reaches step k whose agent is not in the agent map, the
\* call returns success=false with steps_completed = k-1 and a result sequence
\* that holds a failed StepResult for step k.
C1_MissingAgentReturnsPartialResult ==
    [][ AtMissingAgent =>
          /\ ret'.kind = "return"
          /\ ret'.value["success"] = FALSE
          /\ "steps_completed" \in DOMAIN ret'.value
          /\ ret'.value["steps_completed"] = run.i
          /\ \E k \in 1..Len(ret'.value["results"]) :
                /\ ret'.value["results"][k]["step"] = run.i + 1
                /\ ~ret'.value["results"][k]["success"] ]_vars

\* C2: every finished execute_workflow call on a known name has appended
\* exactly one record: the history is as long as the number of such calls.
C2_HistoryCountsCalls ==
    pc = "idle" => Len(execution_history) = calls

\* C3: steps_completed <= total_steps in every record of the history and in
\* every execution result returned.
C3_StepsCompletedAtMostTotal ==
    /\ \A k \in 1..Len(execution_history) :
          execution_history[k]["steps_completed"] <= execution_history[k]["total_steps"]
    /\ ReturnedRecord => ret.value["steps_completed"] <= ret.value["total_steps"]

\* C4: within a run the steps are attempted in definition order, each agent
\* invoked once per step; every step before the current one had its agent in
\* the map and returned success, so a failure (success=false, a raise, a
\* missing agent) is the last thing attempted, and a failed StepResult is the
\* last entry of the result sequence, in the run and in every record.
C4_InOrderOnceAndStopAtFailure ==
    /\ Running =>
          /\ Len(run.invoked) = run.i
          /\ run.i <= Len(StepsOf(run.workflow))
          /\ \A j \in 1..run.i :
                /\ run.invoked[j].step = j
                /\ run.invoked[j].agent = StepsOf(run.workflow)[j]["agent"]
                /\ run.invoked[j].task = StepsOf(run.workflow)[j]["task"]
                /\ run.invoked[j].agent \in run.agents
                /\ (j < run.i \/ pc = "loop") => ReturnedSuccess(run.invoked[j].did)
          /\ \A k \in 1..Len(run.results) :
                /\ run.results[k]["step"] \in 1..run.i
                /\ ~run.results[k]["success"] =>
                      k = Len(run.results) /\ run.results[k]["step"] = run.i /\ pc = "finish"
    /\ \A h \in 1..Len(execution_history) :
          LET results == execution_history[h]["results"]
          IN  \A k \in 1..Len(results) :
                 /\ results[k]["step"] \in 1..execution_history[h]["total_steps"]
                 /\ ~results[k]["success"] => k = Len(results)
                 /\ k > 1 => results[k - 1]["step"] <= results[k]["step"]

\* a run stopped at step 1 of a longer workflow, whose later steps stay unattempted
C4_Witness ==
    /\ pc = "finish"
    /\ run.i = 1
    /\ Len(StepsOf(run.workflow)) = 2
    /\ run.invoked[1].did.kind = "return"
    /\ IsDict(run.invoked[1].did.value)
    /\ ~Succeeded(run.invoked[1].did.value.dict)

\* C5: when agent.execute raises, the exception is captured: the run appends
\* exactly one StepResult for that step, failed and carrying the error, and
\* stops; the execution result it then returns reports success=false, and the
\* only exception execute_workflow itself raises is the not-found one.
C5_RaiseIsCapturedAsFailedStep ==
    /\ (Running /\ run.i >= 1 /\ run.invoked[run.i].did.kind = "raise") =>
          /\ pc = "finish"
          /\ Len(run.results) >= 1
          /\ Last(run.results) =
                [step |-> run.i, agent |-> StepsOf(run.workflow)[run.i]["agent"],
                 task |-> StepsOf(run.workflow)[run.i]["task"],
                 success |-> FALSE, error |-> "AgentError"]
          /\ Cardinality({k \in 1..Len(run.results) : run.results[k]["step"] = run.i}) = 1
          /\ ~ExecutionResult(run.name, run.workflow, run.results, run.context)["success"]
    /\ (pc = "idle" /\ ret.op = "execute_workflow" /\ ret.kind = "raise") =>
          ret.error = "ValueError" /\ ret.name \notin DOMAIN workflows
    /\ (ReturnedRecord /\ ret.value["results"] # << >>
          /\ "error" \in DOMAIN Last(ret.value["results"])) =>
          /\ ~ret.value["success"]
          /\ Last(execution_history) = ret.value

\* the second step's agent raised, and the call has returned its result
C5_Witness ==
    /\ ReturnedRecord
    /\ ret.value["steps_completed"] = 2
    /\ Last(ret.value["results"])["step"] = 2
    /\ "error" \in DOMAIN Last(ret.value["results"])
    /\ Last(ret.value["results"])["error"] = "AgentError"

\* C6: the success flag of a returned result is true exactly when every
\* StepResult of its result sequence reports success; a workflow without steps
\* returns success=true and steps_completed=0.
C6_SuccessIffAllStepsSucceeded ==
    Returned =>
       ret.value["success"] =
          (\A k \in 1..Len(ret.value["results"]) : ret.value["results"][k]["success"])

\* C7: execute_workflow works on a copy of initial_context: while the call
\* runs (and so when it returns) the caller's mapping holds what it held when
\* the call was made.
C7_InitialContextUntouched ==
    (Running /\ run.initial_context # NoContext) => dicts[run.initial_context] = run.before


\* `passed` is `shared` overlaid with `own`, the keys of `own` winning
IsOverlay(passed, shared, own) ==
    /\ DOMAIN passed = DOMAIN shared \cup DOMAIN own
    /\ \A k \in DOMAIN passed : passed[k] = IF k \in DOMAIN own THEN own[k] ELSE shared[k]

\* the output_context mapping of a returned result mapping (none: empty)
OutputOf(did) ==
    IF "output_context" \in DOMAIN did.value.dict
    THEN did.value.dict["output_context"].dict
    ELSE EmptyDict

\* what the shared context must hold before step j of the running call: what
\* the call was given, with the outputs of steps 1..j-1 merged in step order
RECURSIVE SharedBefore(_)
SharedBefore(j) ==
    IF j = 1 THEN run.before
    ELSE LET earlier == SharedBefore(j - 1)
             output == OutputOf(run.invoked[j - 1].did)
         IN  [k \in DOMAIN earlier \cup DOMAIN output |->
                 IF k \in DOMAIN output THEN output[k] ELSE earlier[k]]

\* C8: the context passed to a step's agent is the shared context overlaid
\* with the step's own context, step keys winning, for that call only: the
\* shared context (and so final_context) holds only what the call was given
\* and what the agents returned in output_context.
C8_StepContextOverlaysForThatCallOnly ==
    Running =>
       /\ \A j \in 1..run.i :
             IsOverlay(run.invoked[j].context, SharedBefore(j),
                       IF "context" \in DOMAIN StepsOf(run.workflow)[j]
                       THEN StepsOf(run.workflow)[j]["context"] ELSE EmptyDict)
       /\ pc = "loop" => dicts[run.context] = SharedBefore(run.i + 1)
       /\ pc = "finish" => dicts[run.context] = SharedBefore(run.i)
       /\ ExecutionResult(run.name, run.workflow, run.results, run.context)["final_context"]
             = run.context

\* step 1 shadowed the caller's k1 with its own value, step 2 saw the shared one
C8_Witness ==
    /\ Running
    /\ run.i = 2
    /\ run.initial_context = CallerDict
    /\ run.before = [k1 |-> "init"]
    /\ run.invoked[1].context["k1"] = "step"
    /\ run.invoked[2].context["k1"] = "init"

\* every step of the running call had its agent in the map and every
\* invocation returned a result mapping reporting success
AllAgentsSucceeded ==
    /\ \A j \in 1..Len(StepsOf(run.workflow)) : StepsOf(run.workflow)[j]["agent"] \in run.agents
    /\ \A j \in 1..Len(run.invoked) : ReturnedSuccess(run.invoked[j].did)

\* C9: a run in which every agent returns success=true returns success=true
\* with steps_completed = total_steps.
C9_AllSuccessCompletesEveryStep ==
    [][ (Running /\ pc' = "idle" /\ AllAgentsSucceeded) =>
          /\ ret'.value["success"]
          /\ ret'.value["steps_completed"] = ret'.value["total_steps"] ]_vars

\* C10: execute_workflow on a name that is not a known definition raises the
\* not-found error at once: no run starts (no agent is invoked), and the
\* workflow set, the history and the dict objects stay as they were; a run
\* starts only for a known name.
C10_UnknownNameFailsWithoutEffect ==
    [][ (pc = "idle" /\ ret'.op = "execute_workflow") =>
          /\ ret'.kind = "running" => run'.name \in DOMAIN workflows
          /\ ret'.kind = "raise" =>
                /\ ret'.error = "ValueError"
                /\ ret'.name \notin DOMAIN workflows
                /\ pc' = "idle"
                /\ UNCHANGED <<workflows, execution_history, dicts, invocations, calls>> ]_vars

\* the not-found error for a name that was created, run and deleted
C10_Witness ==
    /\ pc = "idle"
    /\ ret.op = "execute_workflow"
    /\ ret.kind = "raise"
    /\ \E h \in 1..Len(execution_history) : execution_history[h]["workflow"] = ret.name

\* the keys of self.workflows are the names listed, each once, and every
\* definition is stored under its own name
NamesUnique ==
    /\ {list_workflows[k] : k \in 1..Len(list_workflows)} = DOMAIN workflows
    /\ Len(list_workflows) = Cardinality(DOMAIN workflows)
    /\ \A n \in DOMAIN workflows : workflows[n]["name"] = n

\* the step is a create_workflow call for `name` (whatever steps it was given:
\* a call that stored a definition was given the steps it stored)
IsCreate(name) ==
    \E description \in Descriptions :
       create_workflow(name, description,
                       IF name \in DOMAIN workflows' THEN workflows'[name]["steps"]
                       ELSE List(<< >>))

\* C11: workflow names are unique within a manager.  create_workflow with a
\* name already present raises and leaves the definitions and list_workflows
\* as they were; with an absent name (so also after a delete) it succeeds and
\* lists the name last.  delete_workflow returns true for a present name,
\* which is then absent from list_workflows while the others keep their
\* definitions and order, and returns false for an absent name and changes
\* nothing.
C11_NamesUniqueCreateDelete ==
    [][ /\ ret'.op \in {"create_workflow", "delete_workflow"} => NamesUnique'
        /\ ret'.op = "create_workflow" =>
           \A name \in Names :
              IsCreate(name) =>
                 IF name \in DOMAIN workflows
                 THEN /\ ret'.kind = "raise"
                      /\ workflows' = workflows
                      /\ list_workflows' = list_workflows
                 ELSE /\ ret'.kind = "return"
                      /\ list_workflows' = Append(list_workflows, name)
                      /\ workflows'[name]["name"] = name
                      /\ \A n \in DOMAIN workflows : workflows'[n] = workflows[n]
        /\ ret'.op = "delete_workflow" =>
           \A name \in Names :
              delete_workflow(name) =>
                 IF name \in DOMAIN workflows
                 THEN /\ ret'.value = TRUE
                      /\ \A k \in 1..Len(list_workflows') : list_workflows'[k] # name
                      /\ list_workflows' = SelectSeq(list_workflows, LAMBDA n : n # name)
                      /\ \A n \in DOMAIN workflows \ {name} :
                            n \in DOMAIN workflows' /\ workflows'[n] = workflows[n]
                 ELSE /\ ret'.value = FALSE
                      /\ workflows' = workflows
                      /\ list_workflows' = list_workflows
                      /\ execution_history' = execution_history ]_vars

\* w1 has just been created for the second time: the history holds a run of
\* an earlier w1, which had another number of steps and was deleted since
C11_Witness ==
    /\ pc = "idle"
    /\ ret.op = "create_workflow"
    /\ ret.kind = "return"
    /\ creates = 2
    /\ list_workflows = <<"w1">>
    /\ \E h \in 1..Len(execution_history) :
          /\ execution_history[h]["workflow"] = "w1"
          /\ execution_history[h]["total_steps"] # Len(StepsOf(workflows["w1"]))

\* C12: build() produces an immutable snapshot: whatever is done to the
\* builder afterwards, the steps of the definition it returned are the steps
\* the builder held when build() returned.
C12_BuiltDefinitionIsSnapshot ==
    IsDict(built) => Deref(built.dict["steps"]) = built_steps

\* C13: from create_workflow to delete_workflow the stored step sequence of a
\* workflow is the one create_workflow was given, and total_steps of every
\* execution result of the workflow is the step count at creation.
C13_DefinitionFixedAtCreation ==
    /\ \A n \in DOMAIN workflows : StepsOf(workflows[n]) = given[n]
    /\ ReturnedRecord => ret.value["total_steps"] = Len(given[ret.value["workflow"]])

\* ------------------------------------------------ registry and factories
Raised(error) == ret'.kind = "raise" /\ ret'.error = error
RaisedMessage(message) == ret'.kind = "raise" /\ ret'.message = message
Range(seq) == {seq[i] : i \in 1..Len(seq)}
Without(seq, x) == SelectSeq(seq, LAMBDA y : y # x)

C15_ListTypesInRegistrationOrder ==
    [][ ret'.op \in {"register", "unregister", "clear"} =>
          /\ Cardinality(Range(list_types')) = Len(list_types')
          /\ \A t \in AgentTypes :
                /\ t \in Range(list_types') <=> is_registered(t)'
                /\ t \in Range(list_types') <=> get(t)' # "None"
          /\ ret'.op = "register" =>
                \A agent_type \in AgentTypes, agent_class \in Classes :
                   register(agent_type, agent_class) =>
                      list_types' = IF ret'.kind = "return"
                                    THEN Append(list_types, agent_type) ELSE list_types
          /\ ret'.op = "unregister" =>
                \A agent_type \in AgentTypes :
                   unregister(agent_type) =>
                      /\ list_types' = Without(list_types, agent_type)
                      /\ agent_type \notin Range(list_types) => registered' = registered
          /\ ret'.op = "clear" => list_types' = << >> ]_vars

\* an agent exists whose class no name is bound to any more: a name has been
\* unregistered and registered again, and two names are listed
C15_Witness ==
    /\ ret.op = "register"
    /\ ret.kind = "return"
    /\ list_types = <<"debugging", "coding">>
    /\ Len(instances) = 1
    /\ instances[1].agent_type = "CodingAgent"
    /\ At(registered, "debugging") = "BaseAgent"
    /\ At(registered, "coding") = "BaseAgent"

\* a create_agent call for `name` in `factory` that has all it needs: a
\* registered type bound to a concrete class, and a name not active there
CanCreate(factory, agent_type, name) ==
    /\ Has(registered, agent_type)
    /\ ~IsAbstract(At(registered, agent_type))
    /\ ~Has(active_agents[factory], name)

OtherFactoriesUnchanged(factory) ==
    \A g \in Factories \ {factory} : active_agents'[g] = active_agents[g]

\* C16: the registry is shared, the active agents are per factory: a
\* create_agent call succeeds in any factory for a registered (concrete)
\* type and a name not active in that factory, whichever factory registered
\* the type and whatever names are active elsewhere; create_agent,
\* remove_agent and clear_all_agents change the active set of their own
\* factory only, clear_all_agents empties it, and none of them changes the
\* registered types.
C16_SharedRegistryOwnAgents ==
    [][ /\ ret'.op = "create_agent" =>
             \A factory \in Factories, agent_type \in AgentTypes, name \in AgentNames,
                config \in Configs :
                create_agent(factory, agent_type, name, config) =>
                   /\ CanCreate(factory, agent_type, name) =>
                         ret'.kind = "return" /\ Has(active_agents'[factory], name)
                   /\ OtherFactoriesUnchanged(factory)
                   /\ registered' = registered
        /\ ret'.op = "remove_agent" =>
             \A factory \in Factories, name \in AgentNames :
                remove_agent(factory, name) =>
                   OtherFactoriesUnchanged(factory) /\ registered' = registered
        /\ ret'.op = "clear_all_agents" =>
             \A factory \in Factories :
                clear_all_agents(factory) =>
                   /\ list_agents(factory)' = << >>
                   /\ OtherFactoriesUnchanged(factory)
                   /\ registered' = registered ]_vars

\* f2 has just created "n1" from a type registered through f1, while f1
\* holds an agent of its own under the same name
C16_Witness ==
    /\ ret.op = "create_agent"
    /\ ret.kind = "return"
    /\ ret.factory = "f2"
    /\ ret.name = "n1"
    /\ Has(active_agents["f1"], "n1")
    /\ get_agent("f1", "n1") # get_agent("f2", "n1")
    /\ Has(registered, "coding")
    /\ registered_through["coding"] = "f1"
    /\ list_types = <<"coding">>

\* C17: the instance create_agent returns is the one get_agent returns for
\* the name, and it stays so, itself unchanged, as long as the name is
\* active; a name stops being active only by remove_agent or
\* clear_all_agents.  For a registered type and a name not active the call
\* does return (unless the registered class cannot be instantiated).
C17_GetAgentReturnsCreatedInstance ==
    [][ /\ (ret'.op = "create_agent" /\ ret'.kind = "return") =>
             /\ \A factory \in Factories, name \in AgentNames :
                   (factory = ret'.factory /\ name = ret'.name) =>
                      get_agent(factory, name)' = ret'.value
             /\ ret'.value.agent = Len(instances) + 1
             /\ instances'[ret'.value.agent].name = ret'.name
        /\ ret'.op = "create_agent" =>
             \A factory \in Factories, agent_type \in AgentTypes, name \in AgentNames,
                config \in Configs :
                (create_agent(factory, agent_type, name, config)
                   /\ CanCreate(factory, agent_type, name)) => ret'.kind = "return"
        /\ \A factory \in Factories, name \in AgentNames :
              Has(active_agents[factory], name) =>
                 IF Has(active_agents'[factory], name)
                 THEN /\ get_agent(factory, name)' = get_agent(factory, name)
                      /\ instances'[get_agent(factory, name).agent]
                            = instances[get_agent(factory, name).agent]
                 ELSE ret'.op \in {"remove_agent", "clear_all_agents"} ]_vars

\* the first agent made is still the one f1 returns for "n1", after a second
\* agent was made and removed again
C17_Witness ==
    /\ ret.op = "remove_agent"
    /\ ret.value = TRUE
    /\ Len(instances) = 2
    /\ get_agent("f1", "n1") = Agent(1)
    /\ instances[1].name = "n1"

\* C18 as stated: create_agent with a name active in the factory fails with
\* the duplicate-name error whatever type is requested, and leaves the active
\* agents and the agent objects as they were.
C18_ActiveNameIsDuplicateError ==
    [][ ret'.op = "create_agent" =>
          \A factory \in Factories, agent_type \in AgentTypes, name \in AgentNames,
             config \in Configs :
             (create_agent(factory, agent_type, name, config)
                /\ Has(active_agents[factory], name)) =>
                /\ RaisedMessage("already exists")
                /\ UNCHANGED <<active_agents, instances>> ]_vars

\* C18 amended: the type is checked first.  create_agent with a name active in
\* the factory fails with the duplicate-name error for every registered type
\* (the one the first agent was made from or another), and with the
\* unknown-type error for a type that is not registered; either way the
\* first instance stays the one get_agent returns, unchanged, and the active
\* agents of every factory stay as they were.
C18_ActiveNameFailsTypeFirst ==
    [][ ret'.op = "create_agent" =>
          \A factory \in Factories, agent_type \in AgentTypes, name \in AgentNames,
             config \in Configs :
             (create_agent(factory, agent_type, name, config)
                /\ Has(active_agents[factory], name)) =>
                /\ RaisedMessage(IF Has(registered, agent_type) THEN "already exists"
                                 ELSE "is not registered")
                /\ ret'.error = "ValueError"
                /\ get_agent(factory, name)' = get_agent(factory, name)
                /\ UNCHANGED <<active_agents, instances>> ]_vars

\* the duplicate-name error, with two agents active in the factory
C18_Witness ==
    /\ ret.op = "create_agent"
    /\ ret.kind = "raise"
    /\ ret.message = "already exists"
    /\ \E factory \in Factories : Len(list_agents(factory)) = 2

\* C19: create_agent with a type that is not registered fails with the
\* unknown-type error, constructs no agent and leaves the active agents as
\* they were; register, unregister and clear of the registry leave the active
\* agents and the agent objects alone, so agents of a type unregistered since
\* stay active and retrievable.
C19_UnknownTypeFailsAgentsStay ==
    [][ /\ ret'.op = "create_agent" =>
             \A factory \in Factories, agent_type \in AgentTypes, name \in AgentNames,
                config \in Configs :
                (create_agent(factory, agent_type, name, config)
                   /\ ~Has(registered, agent_type)) =>
                   /\ RaisedMessage("is not registered")
                   /\ ret'.error = "ValueError"
                   /\ UNCHANGED <<active_agents, instances>>
        /\ ret'.op \in {"register", "unregister", "clear"} =>
             /\ UNCHANGED <<active_agents, instances>>
             /\ \A factory \in Factories, name \in AgentNames :
                   get_agent(factory, name)' = get_agent(factory, name) ]_vars

\* the unknown-type error while nothing is registered and an agent made
\* earlier is still active
C19_Witness ==
    /\ ret.op = "create_agent"
    /\ ret.kind = "raise"
    /\ ret.message = "is not registered"
    /\ list_types = << >>
    /\ get_agent("f1", "n1") = Agent(1)

\* C20: remove_agent(name) returns true exactly when the name was active;
\* afterwards the name is not in list_agents and get_agent(name) is None,
\* the other agents of the factory keep their order, every other name of
\* every factory gives the instance it gave, no agent object changes, and a
\* create_agent for a name that is not active (so also a removed one)
\* succeeds for a registered concrete type.
C20_RemoveAgentReturnsPresence ==
    [][ /\ ret'.op = "remove_agent" =>
             \A factory \in Factories, name \in AgentNames :
                remove_agent(factory, name) =>
                   /\ ret'.value = Has(active_agents[factory], name)
                   /\ name \notin Range(list_agents(factory)')
                   /\ get_agent(factory, name)' = None
                   /\ list_agents(factory)' = Without(list_agents(factory), name)
                   /\ \A g \in Factories, n \in AgentNames :
                         (g # factory \/ n # name) => get_agent(g, n)' = get_agent(g, n)
                   /\ instances' = instances
        /\ ret'.op = "create_agent" =>
             \A factory \in Factories, agent_type \in AgentTypes, name \in AgentNames,
                config \in Configs :
                (create_agent(factory, agent_type, name, config)
                   /\ CanCreate(factory, agent_type, name)) =>
                   /\ ret'.kind = "return"
                   /\ list_agents(factory)' = Append(list_agents(factory), name) ]_vars

\* the first agent has been removed, the second is still active in the same
\* factory
C20_Witness ==
    /\ ret.op = "remove_agent"
    /\ ret.value = TRUE
    /\ Len(instances) = 2
    /\ \E factory \in Factories :
          /\ Len(list_agents(factory)) = 1
          /\ get_agent(factory, instances[2].name) = Agent(2)
          /\ \A g \in Factories \ {factory} : list_agents(g) = << >>
    /\ instances[1].name # instances[2].name

\* the agent objects ever created under the name
Created(name) == {id \in 1..Len(instances) : instances[id].name = name}
IsActive(factory, name) == \E k \in 1..Len(list_agents(factory)) : list_agents(factory)[k] = name
InvalidInput(task, context) ==
    task = None \/ ~IsStr(task) \/ (context # None /\ ~IsDict(context))
ExecutedTask == ret.op = "execute_agent_task"

Bookkeeping(agent) ==
    IF agent.agent_type = "DebuggingAgent" THEN agent.bug_database
    ELSE IF agent.agent_type = "PlanningAgent" THEN agent.plans
    ELSE IF agent.agent_type = "BuildingAgent" THEN agent.build_history
    ELSE << >>

\* C22: in the execute of every concrete agent class, a task that is None or
\* no string, or a context that is neither None nor a mapping, yields a result
\* with success=false and leaves the agent object as it was: history, bug
\* database, plans and build history keep their length.
C22_InvalidInputFailsWithoutChange ==
    \A id \in 1..Len(instances), task \in Tasks, context \in Contexts :
       InvalidInput(task, context) =>
          LET done == execute(instances[id], task, context)
          IN  /\ done.kind = "return"
              /\ done.value.dict["success"] = Bool(FALSE)
              /\ done.agent = instances[id]
              /\ Len(done.agent.history) = Len(instances[id].history)
              /\ Len(Bookkeeping(done.agent)) = Len(Bookkeeping(instances[id]))

\* a debugging agent that has logged one bug was handed an input it rejects:
\* the call returned success=false and the lists hold one entry each
C22_Witness ==
    /\ ExecutedTask
    /\ ret.kind = "return"
    /\ ret.value.dict["success"] = Bool(FALSE)
    /\ IsActive("f1", ret.name)
    /\ LET agent == instances[At(active_agents["f1"], ret.name)]
       IN  /\ agent.agent_type = "DebuggingAgent"
           /\ Len(agent.history) = 1
           /\ Len(agent.bug_database) = 1

\* the successful executions of one agent, in call order
ExecutedBy(id) == SelectSeq(executed, LAMBDA e : e.agent = id)

\* C23: the history of every agent object holds one record per successful
\* execute of that agent, in call order, each carrying that call's task and
\* result; execution_count is the number of successful executions.
C23_HistoryListsSuccessfulExecutions ==
    \A id \in 1..Len(instances) :
       /\ Len(get_history(instances[id])) = Len(ExecutedBy(id))
       /\ get_info(instances[id]).execution_count = Len(ExecutedBy(id))
       /\ \A k \in 1..Len(ExecutedBy(id)) :
             /\ get_history(instances[id])[k].dict["task"] = ExecutedBy(id)[k].task
             /\ get_history(instances[id])[k].dict["result"] = ExecutedBy(id)[k].result

\* one agent executed t1 and then t2; a failed call came after them
C23_Witness ==
    /\ ExecutedTask
    /\ ret.kind = "return"
    /\ ret.value.dict["success"] = Bool(FALSE)
    /\ \E id \in 1..Len(instances) :
          /\ Len(instances[id].history) = 2
          /\ instances[id].history[1].dict["task"] = Str("t1")
          /\ instances[id].history[2].dict["task"] = Str("t2")

\* C24: the instance deserialize_agent restores from what export_state wrote,
\* built by the exported agent's own class, has the name, type, config and
\* history of the exported agent.
C24_ExportDeserializeRoundTrips ==
    (ret.op = "deserialize_agent" /\ ret.agent_class = ret.exported.agent_type) =>
       /\ ret.value.name = ret.exported.name
       /\ ret.value.agent_type = ret.exported.agent_type
       /\ ret.value.config = ret.exported.config
       /\ ret.value.history = ret.exported.history

Validated == ret.op \in {"validate_agent_config", "validate_factory_config",
                         "validate_workflow_config"}

\* C25: a validation of a mapping returns {valid, errors} with valid true
\* exactly when there are no errors; a validation of a top-level input that is
\* no mapping raises instead of returning a result.
C25_ValidationReturnsOrRaises ==
    Validated =>
       IF IsDict(ret.config)
       THEN /\ ret.kind = "return"
            /\ ret.value.valid = (ret.value.errors = None)
       ELSE ret.kind = "raise"

\* the values a step's "type" may hold, besides being absent
Kinds == {"sequential", "parallel", "unknown"}
\* the step with another kind, or with none
Relabellings(step) ==
    {[k \in DOMAIN step \ {"type"} |-> step[k]]}
    \cup {[k \in DOMAIN step \cup {"type"} |-> IF k = "type" THEN kind ELSE step[k]] :
             kind \in Kinds}

C27_OneStepResultPerStep ==
    /\ \A h \in 1..Len(execution_history) :
          \A k \in 1..Len(execution_history[h]["results"]) :
             execution_history[h]["results"][k]["step"] = k
    /\ Returned => \A k \in 1..Len(ret.value["results"]) : ret.value["results"][k]["step"] = k

\* C28: a call on a known workflow returns either success=true, and then
\* steps_completed = total_steps, or success=false, and then the last
\* StepResult of its result sequence is a failed one.
C28_SuccessOrPartialWithFailingLast ==
    Returned =>
       IF ret.value["success"]
       THEN /\ "steps_completed" \in DOMAIN ret.value
            /\ ret.value["steps_completed"] = ret.value["total_steps"]
       ELSE /\ ret.value["results"] # << >>
            /\ ~Last(ret.value["results"])["success"]

\* the agents of the steps that `names` lacks, in step order
RECURSIVE Absent(_, _)
Absent(steps, names) ==
    IF steps = << >> THEN << >>
    ELSE IF Head(steps)["agent"] \in names THEN Absent(Tail(steps), names)
    ELSE <<Head(steps)["agent"]>> \o Absent(Tail(steps), names)

\* C29: validate_workflow(name, names) is valid exactly when the name is known
\* and every step's agent is in names; the missing agents it returns are the
\* step agents absent from names, in step order; and a running execute_workflow
\* call whose workflow validates for the keys of its agent map never stands
\* before a step whose agent the map lacks.
C29_ValidateAgreesWithExecute ==
    /\ \A name \in Names, names \in AgentMaps \cup {{}} :
          LET validation == validate_workflow(name, names)
          IN  /\ validation.valid =
                    (/\ name \in DOMAIN workflows
                     /\ \A k \in 1..Len(StepsOf(workflows[name])) :
                           StepsOf(workflows[name])[k]["agent"] \in names)
              /\ "missing_agents" \in DOMAIN validation =>
                    /\ validation.missing_agents = Absent(StepsOf(workflows[name]), names)
                    /\ validation.missing_agents # << >>
              /\ (name \in DOMAIN workflows /\ ~validation.valid) =>
                    "missing_agents" \in DOMAIN validation
    /\ (Running /\ validate_workflow(run.name, run.agents).valid) => ~AtMissingAgent

\* a workflow that validates for the agent map of the running call, which has
\* run both of its steps, the second by an agent the smaller map lacks
C29_Witness ==
    /\ pc = "loop"
    /\ run.i = 2
    /\ run.agents = {"a", "b"}
    /\ validate_workflow(run.name, run.agents).valid
    /\ validate_workflow(run.name, {"a"}) =
          [valid |-> FALSE, error |-> "Missing required agents", missing_agents |-> <<"b">>]

\* C30: no step of the manager changes a record of the execution history:
\* the records keep their place, their success, steps_completed and results,
\* and the mapping that is their final_context holds what it held.
C30_RecordsFixedOnceAppended ==
    [][ /\ Len(get_execution_history') >= Len(get_execution_history)
        /\ \A h \in 1..Len(execution_history) :
              /\ execution_history'[h] = execution_history[h]
              /\ dicts'[execution_history[h]["final_context"]]
                    = dicts[execution_history[h]["final_context"]] ]_vars

=============================================================================
